---- MODULE Spec2Model ----
(***************************************************************************)
(* Model of the market-maker dashboard front end: the ticker search box    *)
(* (TickerSearchInput), the dashboard that hosts it (TickerDashboard), the *)
(* news/sentiment analysis flow and the four chart components.             *)
(*                                                                         *)
(* Text is a sequence of one-character strings.  Time advances in ticks of *)
(* TickMs milliseconds; a timer is a record with the ticks it has left.    *)
(***************************************************************************)
EXTENDS Integers, Sequences, FiniteSets, TLC

\* ------------------------------------------------------------------ bounds
MaxActs     == 4   \* keystrokes, commits and Retry clicks in one behaviour
MaxAnswers  == 3   \* market-data responses delivered in one behaviour
MaxMatches  == 3   \* length of the free part of a provider match list
MaxPreds    == 3   \* length of a predictions list
MaxMonths   == 3   \* monthly records in a dividends payload
MaxScore    == 2   \* largest score in a predictions list

\* ------------------------------------------------------- program constants
DebounceMs   == 500
SettleMs     == 100
MinTypedLen  == 3
MinQueryLen  == 2
MaxLive      == 8
MinChartLen  == 3
MaxStored    == 10
MaxArticles  == 3
MaxLength    == 2000

\* one tick of model time is the shorter of the two delays
TickMs        == SettleMs
DebounceTicks == DebounceMs \div TickMs
SettleTicks   == SettleMs \div TickMs

\* null: no timer handle (handles are positive), no sentiment result
NoTimer == 0
NoResult == <<>>

\* -------------------------------------------------------------------- text
\* upper-case / lower-case letter pairs of the alphabet in use
CasePairs ==
  { <<"A", "a">>, <<"B", "b">>, <<"D", "d">>, <<"E", "e">>, <<"G", "g">>,
    <<"L", "l">>, <<"M", "m">>, <<"N", "n">>, <<"O", "o">>, <<"P", "p">>,
    <<"R", "r">>, <<"S", "s">>, <<"T", "t">>, <<"U", "u">>, <<"V", "v">> }

\* String.prototype.toUpperCase, one character
UpperChar(c) ==
  IF \E p \in CasePairs : p[2] = c
    THEN (CHOOSE p \in CasePairs : p[2] = c)[1]
    ELSE c

\* String.prototype.toLowerCase, one character
LowerChar(c) ==
  IF \E p \in CasePairs : p[1] = c
    THEN (CHOOSE p \in CasePairs : p[1] = c)[2]
    ELSE c

\* String.prototype.toUpperCase
toUpperCase(s) == [i \in DOMAIN s |-> UpperChar(s[i])]

\* String.prototype.toLowerCase
toLowerCase(s) == [i \in DOMAIN s |-> LowerChar(s[i])]

\* String.prototype.includes(sub)
Includes(s, sub) ==
  \E i \in 1..(Len(s) - Len(sub) + 1) : SubSeq(s, i, i + Len(sub) - 1) = sub

RECURSIVE TrimLeft(_)
TrimLeft(s) ==
  IF s # <<>> /\ Head(s) = " " THEN TrimLeft(Tail(s)) ELSE s

RECURSIVE TrimRight(_)
TrimRight(s) ==
  IF s # <<>> /\ s[Len(s)] = " " THEN TrimRight(SubSeq(s, 1, Len(s) - 1)) ELSE s

\* String.prototype.trim
trim(s) == TrimRight(TrimLeft(s))

\* String.prototype.includes(' ')
IncludesSpace(s) == \E i \in DOMAIN s : s[i] = " "

\* values the user can leave in the input box (e.target.value)
TypedValues ==
  { <<>>,
    <<"A", "B">>,
    <<"A", "B", " ">>,
    <<" ", " ", " ">>,
    <<"a", "p", "p">>,
    <<"T", "S", "L", "A">> }

\* ------------------------------------------------- symbol search matches
\* SearchResult, reduced to the fields the component reads:
\* '1. symbol', '3. type', '4. region', '9. matchScore' (a decimal string)
Match(sym, ty, reg, sc) == [symbol |-> sym, type |-> ty, region |-> reg, matchScore |-> sc]

DigitVal == [d \in {"0", "1", "2", "3", "4", "5", "6", "7", "8", "9"} |->
              CASE d = "0" -> 0 [] d = "1" -> 1 [] d = "2" -> 2 [] d = "3" -> 3
                [] d = "4" -> 4 [] d = "5" -> 5 [] d = "6" -> 6 [] d = "7" -> 7
                [] d = "8" -> 8 [] d = "9" -> 9]

\* parseFloat of a score string "d.d", in tenths
parseFloat(sc) == DigitVal[sc[1]] * 10 + DigitVal[sc[3]]

TSLA  == Match(<<"T", "S", "L", "A">>, "Equity", "United States", <<"1", ".", "0">>)
TSLL  == Match(<<"T", "S", "L", "L">>, "ETF",    "United States", <<"0", ".", "8">>)
TSLF  == Match(<<"T", "S", "L">>,      "Equity", "Frankfurt",     <<"0", ".", "9">>)
AB    == Match(<<"A", "B">>,           "Equity", "United States", <<"0", ".", "5">>)
ABT   == Match(<<"A", "B", "T">>,      "Equity", "United States", <<"0", ".", "5">>)

\* Array.prototype.filter with the Equity / United States predicate
RECURSIVE FilterUSEquity(_)
FilterUSEquity(ms) ==
  IF ms = <<>> THEN <<>>
  ELSE IF Head(ms).type = "Equity" /\ Head(ms).region = "United States"
         THEN <<Head(ms)>> \o FilterUSEquity(Tail(ms))
         ELSE FilterUSEquity(Tail(ms))

\* a comparator that orders by increasing score
CompareScoreAscending(a, b) == parseFloat(a.matchScore) - parseFloat(b.matchScore)

\* comparator of the sort: parseFloat(b.score) - parseFloat(a.score)
CompareScore(a, b) == parseFloat(b.matchScore) - parseFloat(a.matchScore)

\* insert m into a list already sorted by CompareScore, after its equals (stable)
RECURSIVE InsertByScore(_, _)
InsertByScore(m, sorted) ==
  IF sorted = <<>> THEN <<m>>
  ELSE IF CompareScore(Head(sorted), m) <= 0
         THEN <<Head(sorted)>> \o InsertByScore(m, Tail(sorted))
         ELSE <<m>> \o sorted

\* Array.prototype.sort (stable) with CompareScore
RECURSIVE SortByScore(_)
SortByScore(ms) ==
  IF ms = <<>> THEN <<>>
  ELSE InsertByScore(ms[Len(ms)], SortByScore(SubSeq(ms, 1, Len(ms) - 1)))

\* Array.prototype.slice(0, n)
Slice0(s, n) == SubSeq(s, 1, IF Len(s) < n THEN Len(s) ELSE n)

\* filter, sort, slice(0, 8) of searchTickers
RankMatches(ms) == Slice0(SortByScore(FilterUSEquity(ms)), MaxLive)

\* bestMatches payloads the provider answers with in the dashboard model
LivePayloads ==
  { <<TSLL, TSLF>>,
    <<AB, TSLL, TSLA>> }

\* sequences over S of length at most n
SeqsUpTo(S, n) == UNION {[1..k -> S] : k \in 0..n}

MatchPool == {TSLA, TSLL, TSLF, AB, ABT}

\* seven listed equities, not in score order
LongPrefix == <<AB, TSLA, ABT, AB, TSLA, ABT, AB>>

\* bestMatches payloads for the ranking: every short list, and every short
\* list behind the seven-match prefix
RankPayloads ==
  SeqsUpTo(MatchPool, MaxMatches) \cup {LongPrefix \o t : t \in SeqsUpTo(MatchPool, MaxMatches)}

\* ------------------------------------------------ sentiment normalizer
Pred(l, sc) == [label |-> l, score |-> sc]

ZeroProbabilities == [positive |-> 0, neutral |-> 0, negative |-> 0]

\* a callback that keeps the first score written to a slot
AssignSlotKeepsFirst(probabilities, pred) ==
  LET label == toLowerCase(pred.label) IN
  IF Includes(label, <<"p", "o", "s">>)
    THEN (IF probabilities.positive = 0 THEN [probabilities EXCEPT !.positive = pred.score]
          ELSE probabilities)
  ELSE IF Includes(label, <<"n", "e", "g">>)
    THEN (IF probabilities.negative = 0 THEN [probabilities EXCEPT !.negative = pred.score]
          ELSE probabilities)
  ELSE IF Includes(label, <<"n", "e", "u">>)
    THEN (IF probabilities.neutral = 0 THEN [probabilities EXCEPT !.neutral = pred.score]
          ELSE probabilities)
  ELSE probabilities

\* body of the forEach callback of processApiResponse
AssignSlot(probabilities, pred) ==
  LET label == toLowerCase(pred.label) IN
  IF Includes(label, <<"p", "o", "s", "i", "t", "i", "v", "e">>) \/ Includes(label, <<"p", "o", "s">>)
    THEN [probabilities EXCEPT !.positive = pred.score]
  ELSE IF Includes(label, <<"n", "e", "g", "a", "t", "i", "v", "e">>) \/ Includes(label, <<"n", "e", "g">>)
    THEN [probabilities EXCEPT !.negative = pred.score]
  ELSE IF Includes(label, <<"n", "e", "u", "t", "r", "a", "l">>) \/ Includes(label, <<"n", "e", "u">>)
    THEN [probabilities EXCEPT !.neutral = pred.score]
  ELSE probabilities

\* apiResult.predictions.forEach(...), in list order
RECURSIVE FillSlots(_, _)
FillSlots(probabilities, preds) ==
  IF preds = <<>> THEN probabilities
  ELSE FillSlots(AssignSlot(probabilities, Head(preds)), Tail(preds))

\* Math.max of three numbers
Max3(a, b, c) ==
  LET ab == IF a >= b THEN a ELSE b IN IF ab >= c THEN ab ELSE c

\* a choice that looks at the negative slot first
ChooseSentimentNegativeFirst(probabilities, maxProb) ==
  IF probabilities.negative = maxProb THEN "negative"
  ELSE IF probabilities.positive = maxProb THEN "positive"
  ELSE "neutral"

\* the class chosen from the three slots
ChooseSentiment(probabilities, maxProb) ==
  IF probabilities.positive = maxProb THEN "positive"
  ELSE IF probabilities.negative = maxProb THEN "negative"
  ELSE "neutral"

\* processApiResponse: the SentimentData built from a predictions list
processApiResponse(preds) ==
  LET probabilities == FillSlots(ZeroProbabilities, preds)
      maxProb == Max3(probabilities.positive, probabilities.neutral, probabilities.negative)
  IN [sentiment     |-> ChooseSentiment(probabilities, maxProb),
      confidence    |-> maxProb,
      probabilities |-> probabilities]

LabelPos == <<"P", "O", "S">>
LabelNeg == <<"N", "e", "g">>
LabelNeu == <<"n", "e", "u">>
LabelOther == <<"L", "0">>

\* predictions lists the sentiment service answers with in the dashboard model
LivePredictions ==
  { <<Pred(LabelPos, 7), Pred(LabelNeg, 2), Pred(LabelNeu, 1)>>,
    <<Pred(LabelNeu, 5), Pred(LabelNeg, 5)>>,
    <<Pred(LabelOther, 9), Pred(LabelNeu, 3)>> }

\* a label that holds two of the patterns, in upper and lower case
LabelMixed == <<"N", "E", "G", "p", "o", "s">>

\* predictions lists with non-zero scores over every kind of label
SlotPredictionLists ==
  SeqsUpTo({Pred(l, sc) : l \in {LabelPos, LabelNeg, LabelNeu, LabelOther, LabelMixed},
                          sc \in {1, MaxScore}}, MaxPreds)

\* every predictions list within the bounds
AllPredictionLists ==
  SeqsUpTo({Pred(l, sc) : l \in {LabelPos, LabelNeg, LabelNeu}, sc \in 0..MaxScore}, MaxPreds)

\* ------------------------------------------------- market-data series
\* Number text is "d.d" or "-d.d", in the unit the charts display (the scaling
\* by 1e9 changes neither sign nor zero); any other text, such as the
\* provider's "None" or a missing field, does not parse.
NoneText == <<"N", "o", "n", "e">>

IsDigit(ch) == ch \in DOMAIN DigitVal

IsNumberText(t) == Len(t) = 3 /\ IsDigit(t[1]) /\ t[2] = "." /\ IsDigit(t[3])

\* parseFloat of a payload field: <<n>> in tenths, or <<>> for NaN
parseAmount(t) ==
  IF IsNumberText(t) THEN <<parseFloat(t)>>
  ELSE IF Len(t) = 4 /\ t[1] = "-" /\ IsNumberText(Tail(t)) THEN <<0 - parseFloat(Tail(t))>>
  ELSE <<>>

\* `x || 0` of a parsed number: NaN and 0 are falsy
OrZero(x) == IF x = <<>> THEN 0 ELSE x[1]

Abs(n) == IF n < 0 THEN 0 - n ELSE n

DigitText == [n \in 0..9 |-> CHOOSE d \in DOMAIN DigitVal : DigitVal[d] = n]

\* Number.prototype.toString of a non-negative number of tenths below 10
AmountText(n) == <<DigitText[n \div 10], ".", DigitText[n % 10]>>

\* the text of a date in year y, month m: "yyyy-mm"
DateText(y, m) ==
  <<DigitText[y \div 1000], DigitText[(y \div 100) % 10], DigitText[(y \div 10) % 10],
    DigitText[y % 10], "-", DigitText[m \div 10], DigitText[m % 10]>>

\* String.prototype.substring(0, 4)
Substring04(t) == SubSeq(t, 1, IF Len(t) < 4 THEN Len(t) ELSE 4)

\* parseInt of a text of digits
RECURSIVE parseInt(_)
parseInt(t) ==
  IF t = <<>> THEN 0 ELSE parseInt(SubSeq(t, 1, Len(t) - 1)) * 10 + DigitVal[t[Len(t)]]

\* formatDate: the calendar year of a fiscal date (getFullYear reads the
\* date in local time; the dates of the payloads here are not within a day of
\* a year's end, so every time zone gives the year the text starts with)
formatDate(dateString) == Substring04(dateString)

RECURSIVE Reverse(_)
Reverse(list) ==
  IF list = <<>> THEN <<>> ELSE Reverse(Tail(list)) \o <<Head(list)>>

\* comparator parseInt(a.year) - parseInt(b.year)
CompareYear(a, b) == parseInt(a.year) - parseInt(b.year)

RECURSIVE InsertByYear(_, _)
InsertByYear(m, sorted) ==
  IF sorted = <<>> THEN <<m>>
  ELSE IF CompareYear(Head(sorted), m) <= 0
         THEN <<Head(sorted)>> \o InsertByYear(m, Tail(sorted))
         ELSE <<m>> \o sorted

\* Array.prototype.sort (stable) with CompareYear
RECURSIVE SortByYear(_)
SortByYear(list) ==
  IF list = <<>> THEN <<>>
  ELSE InsertByYear(list[Len(list)], SortByYear(SubSeq(list, 1, Len(list) - 1)))

\* fetchEarningsData: annualEarnings.slice(0, 10).reverse()
EarningsSeries(annualEarnings) == Reverse(Slice0(annualEarnings, MaxStored))

\* the map callback of fetchCashFlowData
CashFlowEntry(report) ==
  LET operatingCashflow == OrZero(parseAmount(report.operatingCashflow))
      capitalExpenditures == Abs(OrZero(parseAmount(report.capitalExpenditures)))
  IN [year |-> Substring04(report.fiscalDateEnding),
      operatingCashflow |-> operatingCashflow,
      capitalExpenditures |-> capitalExpenditures,
      freeCashFlow |-> operatingCashflow - capitalExpenditures,
      netIncome |-> OrZero(parseAmount(report.netIncome))]

\* fetchCashFlowData: slice(0, 10), map, sort by year
CashFlowSeries(annualReports) ==
  LET recent == Slice0(annualReports, MaxStored)
  IN SortByYear([i \in DOMAIN recent |-> CashFlowEntry(recent[i])])

\* the map callback of fetchIncomeStatementData
IncomeEntry(report) ==
  [year |-> Substring04(report.fiscalDateEnding),
   totalRevenue |-> OrZero(parseAmount(report.totalRevenue)),
   netIncome |-> OrZero(parseAmount(report.netIncome)),
   operatingIncome |-> OrZero(parseAmount(report.operatingIncome)),
   grossProfit |-> OrZero(parseAmount(report.grossProfit))]

\* fetchIncomeStatementData: slice(0, 10), map, sort by year
IncomeSeries(annualReports) ==
  LET recent == Slice0(annualReports, MaxStored)
  IN SortByYear([i \in DOMAIN recent |-> IncomeEntry(recent[i])])

\* payments that keep every month whose dividend parses, zero included
RECURSIVE DividendPaymentsKeepsZero(_)
DividendPaymentsKeepsZero(monthlyData) ==
  IF monthlyData = <<>> THEN <<>>
  ELSE LET dividend == parseAmount(Head(monthlyData).amount)
       IN IF dividend # <<>> /\ dividend[1] >= 0
            THEN <<[date |-> Head(monthlyData).date, dividend |-> AmountText(dividend[1])]>>
                   \o DividendPaymentsKeepsZero(Tail(monthlyData))
            ELSE DividendPaymentsKeepsZero(Tail(monthlyData))

\* fetchDividendsData: the months with a dividend that parses and is positive,
\* in the order of the payload, the amount kept as dividend.toString()
RECURSIVE DividendPayments(_)
DividendPayments(monthlyData) ==
  IF monthlyData = <<>> THEN <<>>
  ELSE LET dividend == parseAmount(Head(monthlyData).amount)
       IN IF OrZero(dividend) > 0
            THEN <<[date |-> Head(monthlyData).date, dividend |-> AmountText(dividend[1])]>>
                   \o DividendPayments(Tail(monthlyData))
            ELSE DividendPayments(Tail(monthlyData))

\* totalDividend of a year: += parseFloat(payment.dividend), in payment order
RECURSIVE TotalDividend(_, _)
TotalDividend(payments, year) ==
  IF payments = <<>> THEN 0
  ELSE (IF Substring04(Head(payments).date) = year THEN parseFloat(Head(payments).dividend) ELSE 0)
         + TotalDividend(Tail(payments), year)

\* the yearlyDividends object: one entry per year that has a payment
YearlyDividends(payments) ==
  { [year |-> y, totalDividend |-> TotalDividend(payments, y)] :
      y \in {Substring04(payments[i].date) : i \in DOMAIN payments} }

\* the entries of a set of yearly entries, latest year first
RECURSIVE SortYearsDescending(_)
SortYearsDescending(entries) ==
  IF entries = {} THEN <<>>
  ELSE LET latest == CHOOSE e \in entries : \A f \in entries : parseInt(f.year) <= parseInt(e.year)
       IN <<latest>> \o SortYearsDescending(entries \ {latest})

\* fetchDividendsData: group by year, sort by year descending, slice(0, 10), reverse
DividendsSeries(monthlyData) ==
  Reverse(Slice0(SortYearsDescending(YearlyDividends(DividendPayments(monthlyData))), MaxStored))

\* a provider payload: its 'Error Message' ("" when absent), whether it is a
\* rate-limit 'Note', and its list of records (empty when the field is absent)
Payload(errorMessage, note, records) ==
  [errorMessage |-> errorMessage, note |-> note, records |-> records]

\* the series a chart computes from the records of a payload
SeriesOf(c, records) ==
  CASE c = "earnings"  -> EarningsSeries(records)
    [] c = "dividends" -> DividendsSeries(records)
    [] c = "cashflow"  -> CashFlowSeries(records)
    [] c = "income"    -> IncomeSeries(records)

NoDataMsg(c) ==
  CASE c = "earnings"  -> "No earnings data available for this ticker"
    [] c = "dividends" -> "No dividends data available for this ticker"
    [] c = "cashflow"  -> "No cash flow data available for this ticker"
    [] c = "income"    -> "No income statement data available for this ticker"

\* an outcome that takes an empty series for a success
OutcomeKeepsEmpty(c, payload) ==
  IF payload.errorMessage # ""
    THEN [ok |-> FALSE, error |-> payload.errorMessage, series |-> <<>>]
    ELSE [ok |-> TRUE, error |-> "", series |-> SeriesOf(c, payload.records)]

\* what fetch...Data makes of a payload: the thrown message, or the series
Outcome(c, payload) ==
  IF payload.errorMessage # ""
    THEN [ok |-> FALSE, error |-> payload.errorMessage, series |-> <<>>]
  ELSE IF SeriesOf(c, payload.records) = <<>>
    THEN [ok |-> FALSE, error |-> NoDataMsg(c), series |-> <<>>]
  ELSE [ok |-> TRUE, error |-> "", series |-> SeriesOf(c, payload.records)]

\* -------------------------------------------------------- displayed ratios
\* What a ratio renders as: "number" with its value in tenths of a percent
\* (cut off where toFixed rounds), the text JavaScript prints for the result
\* of a division by zero ("Infinity", "-Infinity", "NaN"), or the "N/A" of a
\* panel that reports the ratio as unavailable.
Shown(kind, value) == [shown |-> kind, value |-> value]

NotAvailable == Shown("N/A", 0)

\* (a / b) * 100 of two finite numbers, as JavaScript divides
Percent(a, b) ==
  IF b # 0
    THEN Shown("number", (IF (a < 0) = (b < 0) THEN 1 ELSE -1) * ((Abs(a) * 1000) \div Abs(b)))
  ELSE IF a > 0 THEN Shown("Infinity", 0)
  ELSE IF a < 0 THEN Shown("-Infinity", 0)
  ELSE Shown("NaN", 0)

\* the YoY Growth line of the earnings tooltip at index dataIndex (from 1);
\* the first bar has no such line
EarningsTooltipGrowth(earningsData, dataIndex) ==
  LET currentEPS == OrZero(parseAmount(earningsData[dataIndex].reportedEPS))
      previousEPS == OrZero(parseAmount(earningsData[dataIndex - 1].reportedEPS))
  IN IF previousEPS # 0
       THEN Percent(currentEPS - previousEPS, Abs(previousEPS))
       ELSE Shown("number", 0)

\* the YoY Growth card of the earnings summary
EarningsSummaryGrowth(earningsData) ==
  IF Len(earningsData) >= 2
    THEN LET last == parseAmount(earningsData[Len(earningsData)].reportedEPS)
             previous == parseAmount(earningsData[Len(earningsData) - 1].reportedEPS)
         IN IF last = <<>> \/ previous = <<>> THEN Shown("NaN", 0)
            ELSE Percent(last[1] - previous[1], Abs(previous[1]))
    ELSE NotAvailable

\* the Revenue Growth card of the income-statement summary
RevenueGrowth(incomeData) ==
  IF Len(incomeData) >= 2
    THEN Percent(incomeData[Len(incomeData)].totalRevenue - incomeData[Len(incomeData) - 1].totalRevenue,
                 incomeData[Len(incomeData) - 1].totalRevenue)
    ELSE NotAvailable

\* a margin line of the income-statement tooltip: 0 unless revenue is above 0
TooltipMargin(part, totalRevenue) ==
  IF totalRevenue > 0 THEN Percent(part, totalRevenue) ELSE Shown("number", 0)

\* profitMargin, the Net Margin card of the income-statement summary
ProfitMargin(incomeData) ==
  Percent(incomeData[Len(incomeData)].netIncome, incomeData[Len(incomeData)].totalRevenue)

\* fcfConversion, the FCF Conversion card of the cash-flow summary
FcfConversion(cashFlowData) ==
  Percent(cashFlowData[Len(cashFlowData)].freeCashFlow, cashFlowData[Len(cashFlowData)].netIncome)

\* the colours of the bar charts
Blue  == "#3b82f6"
Green == "#22c55e"
Amber == "#f59e0b"
Red   == "#ef4444"

\* the colours callback of the earnings chart, for the bar at index (from 1)
EarningsColor(earningsData, index) ==
  LET reported == OrZero(parseAmount(earningsData[index].reportedEPS))
  IN IF reported < 0 THEN Red
     ELSE IF index > 1
       THEN IF reported > OrZero(parseAmount(earningsData[index - 1].reportedEPS))
              THEN Green ELSE Amber
     ELSE Blue

\* the colours callback of the dividends chart, for the bar at index (from 1)
DividendsColor(dividendsData, index) ==
  IF index = 1 THEN Blue
  ELSE IF dividendsData[index].totalDividend > dividendsData[index - 1].totalDividend THEN Green
  ELSE IF dividendsData[index].totalDividend < dividendsData[index - 1].totalDividend THEN Amber
  ELSE Red

\* ------------------------------------------------------------------ state
Charts == {"earnings", "dividends", "cashflow", "income"}

\* the placeholder of the sample environment file
PlaceholderNewsKey == "your_newsapi_key_here"

NewsKeys == {"", PlaceholderNewsKey, "live"}

\* the server environment is fixed for a run; its news key enters the state
\* when the proxy first reads it
Unread == "unread"

VARIABLES
  apiKey,              \* NEXT_PUBLIC_ALPHA_VANTAGE_API_KEY is set
  newsKey,             \* NEXT_PUBLIC_NEWS_API_KEY as the proxy read it ("" when unset)
  ticker,              \* TickerDashboard state
  loading,
  error,
  sentimentData,
  shouldFetchResults,
  searchResults,       \* TickerSearchInput state
  showSuggestions,
  isSearching,
  searchTimeout,
  timers,              \* pending setTimeout callbacks
  timerCount,          \* timer handles handed out so far
  searchReqs,          \* SYMBOL_SEARCH requests in flight
  flows,               \* handleSearch invocations awaiting news or sentiment
  submits,             \* commits by the user so far (Enter, selection, Analyze)
  calls,               \* handleSearch invocations so far
  chart,               \* per chart component: loading, error, data
  chartReqs,           \* market-data requests in flight
  fetches,             \* chart fetch rounds started so far
  acts,                \* keystrokes, commits and Retry clicks so far
  answered,            \* market-data responses delivered so far
  typed,               \* value of the last change event (history)
  idle,                \* ticks since the last change event, capped (history)
  commits,             \* the values committed so far, and whether a commit closed
                       \* the list and no keystroke or focus came since (history)
  event                \* the step just taken (history)

dashVars  == <<ticker, loading, error, sentimentData, shouldFetchResults, flows, calls>>
chartVars == <<chart, chartReqs, fetches>>
boundVars == <<submits, acts, answered>>
inputVars == <<searchResults, showSuggestions, isSearching, searchTimeout>>
timerVars == <<timers, timerCount>>
vars == <<apiKey, newsKey, ticker, loading, error, sentimentData, shouldFetchResults,
          searchResults, showSuggestions, isSearching, searchTimeout,
          timers, timerCount, searchReqs, flows, submits, calls, chart, chartReqs,
          fetches, acts, answered, typed, idle, commits, event>>

NoData == <<>>

\* newest is history: the highest request id whose response was written
InitChart == [loading |-> FALSE, error |-> "", data |-> NoData, newest |-> 0]

Init ==
  /\ apiKey \in BOOLEAN
  /\ newsKey = Unread
  /\ ticker = <<>>
  /\ loading = FALSE
  /\ error = ""
  /\ sentimentData = NoResult
  /\ shouldFetchResults = FALSE
  /\ searchResults = <<>>
  /\ showSuggestions = FALSE
  /\ isSearching = FALSE
  /\ searchTimeout = NoTimer
  /\ timers = {}
  /\ timerCount = 0
  /\ searchReqs = {}
  /\ flows = {}
  /\ submits = 0
  /\ calls = 0
  /\ chart = [c \in Charts |-> InitChart]
  /\ chartReqs = {}
  /\ fetches = 0
  /\ acts = 0
  /\ answered = 0
  /\ typed = <<>>
  /\ idle = 0
  /\ commits = [closed |-> FALSE, values |-> {}]
  /\ event = [kind |-> "init"]

\* ---------------------------------------------------------- chart fetches
KeyMissingMsg == "Alpha Vantage API key not configured"

\* state of a chart component right after fetch...Data() was called with
\* ticker t: nothing for an empty ticker; loading, or the key error
FetchStarted(st, t) ==
  IF t = <<>> THEN st
  ELSE IF apiKey THEN [st EXCEPT !.loading = TRUE, !.error = ""]
  ELSE [st EXCEPT !.loading = FALSE, !.error = KeyMissingMsg]

\* the request fetch...Data() leaves in flight, if any
FetchRequests(cs, t) ==
  IF t # <<>> /\ apiKey
    THEN {[chart |-> c, id |-> fetches + 1, ticker |-> t] : c \in cs}
    ELSE {}

\* condition of the charts' useEffect
EffectCondition(t, should) ==
  should /\ t # <<>> /\ Len(t) >= MinChartLen /\ ~IncludesSpace(t)

\* the effect runs when a dependency changed: [ticker, shouldFetch]
EffectFires(t, should) ==
  /\ <<t, should>> # <<ticker, shouldFetchResults>>
  /\ EffectCondition(t, should)

\* the four charts re-rendered with props (t, should)
RenderCharts(t, should) ==
  IF EffectFires(t, should)
    THEN /\ chart' = [c \in Charts |-> FetchStarted(chart[c], t)]
         /\ chartReqs' = chartReqs \cup FetchRequests(Charts, t)
         /\ fetches' = fetches + 1
    ELSE UNCHANGED chartVars

\* ------------------------------------------------------------- dashboard
BlankTickerMsg == "Please enter a ticker symbol"

\* onChange prop of TickerSearchInput: setTicker(value); setShouldFetchResults(false)
OnChange(value) ==
  /\ ticker' = value
  /\ shouldFetchResults' = FALSE
  /\ UNCHANGED <<loading, error, sentimentData, flows, calls>>
  /\ RenderCharts(value, FALSE)

\* handleSearch of a render in which the ticker state was t, up to its first await
HandleSearch(t) ==
  /\ calls' = calls + 1
  /\ UNCHANGED ticker
  /\ IF trim(t) = <<>>
       THEN /\ error' = BlankTickerMsg
            /\ UNCHANGED <<loading, sentimentData, shouldFetchResults, flows>>
            /\ UNCHANGED chartVars
       ELSE /\ loading' = TRUE
            /\ error' = ""
            /\ sentimentData' = NoResult
            /\ shouldFetchResults' = TRUE
            /\ flows' = flows \cup {[id |-> calls + 1, stage |-> "news", ticker |-> t]}
            /\ RenderCharts(ticker, TRUE)

\* ------------------------------------------------------------ search box
\* a clearTimeout that cancels nothing
ClearTimeoutKeeps(ts, handle) == ts

\* clearTimeout(handle)
ClearTimeout(ts, handle) == {t \in ts : t.id # handle}

\* a setTimeout whose callback is due at once
NewTimerNow(kind, arg, ticks) ==
  [id |-> timerCount + 1, kind |-> kind, arg |-> arg, left |-> 0]

\* setTimeout(callback, ms): the timer record
NewTimer(kind, arg, ticks) ==
  [id |-> timerCount + 1, kind |-> kind, arg |-> arg, left |-> ticks]

\* the typing trigger of handleInputChange
Qualifies(newValue) == trim(newValue) # <<>> /\ Len(newValue) >= MinTypedLen

\* handleInputChange with e.target.value = raw
HandleInputChange(raw) ==
  LET newValue == toUpperCase(raw)
      cleared  == IF searchTimeout # NoTimer THEN ClearTimeout(timers, searchTimeout) ELSE timers
  IN
  /\ raw # ticker
  /\ acts < MaxActs
  /\ acts' = acts + 1
  /\ OnChange(newValue)
  /\ IF Qualifies(newValue)
       THEN /\ timers' = cleared \cup {NewTimer("debounce", newValue, DebounceTicks)}
            /\ timerCount' = timerCount + 1
            /\ searchTimeout' = timerCount + 1
            /\ UNCHANGED <<searchResults, showSuggestions>>
       ELSE /\ timers' = cleared
            /\ searchResults' = <<>>
            /\ showSuggestions' = FALSE
            /\ UNCHANGED <<timerCount, searchTimeout>>
  /\ typed' = newValue
  /\ idle' = 0
  /\ commits' = [commits EXCEPT !.closed = FALSE]
  /\ event' = [kind |-> "type", value |-> newValue, cancelled |-> (cleared # timers)]
  /\ UNCHANGED <<apiKey, newsKey, isSearching, searchReqs, submits, answered>>

\* the suggestion dropdown is rendered
ListOpen == showSuggestions /\ Len(searchResults) > 0

\* the settle timer of a selection, with the symbol chosen (history)
Chosen(timer, symbol) ==
  [id |-> timer.id, kind |-> timer.kind, arg |-> timer.arg, left |-> timer.left,
   chosen |-> symbol]

\* handleSuggestionClick(result); kind tells how the user chose
SuggestionClick(result, kind) ==
  /\ acts < MaxActs
  /\ acts' = acts + 1
  /\ OnChange(result.symbol)
  /\ showSuggestions' = FALSE
  /\ searchResults' = <<>>
  /\ timers' = timers \cup {Chosen(NewTimer("settle", ticker, SettleTicks), result.symbol)}
  /\ timerCount' = timerCount + 1
  /\ submits' = submits + 1
  /\ commits' = [closed |-> TRUE, values |-> commits.values \cup {result.symbol}]
  /\ event' = [kind |-> kind, open |-> ListOpen, via |-> "timer",
                symbol |-> result.symbol, timer |-> timerCount + 1,
                listed |-> [i \in DOMAIN searchResults |-> searchResults[i].symbol]]
  /\ UNCHANGED <<apiKey, newsKey, isSearching, searchTimeout, searchReqs, answered, typed, idle>>

\* onClick of the i-th suggestion
HandleSuggestionClick ==
  /\ ListOpen
  /\ \E i \in 1..Len(searchResults) : SuggestionClick(searchResults[i], "click")

\* an Enter test that forgets whether the list is shown
EnterChoosesAnyResults == Len(searchResults) > 0

\* the test of handleKeyDown that sends Enter to the first suggestion
EnterChooses == showSuggestions /\ Len(searchResults) > 0

\* handleKeyDown with e.key = 'Enter'
HandleEnter ==
  IF EnterChooses
    THEN SuggestionClick(searchResults[1], "enter")
    ELSE /\ acts < MaxActs
         /\ acts' = acts + 1
         /\ showSuggestions' = FALSE
         /\ HandleSearch(ticker)
         /\ submits' = submits + 1
         /\ commits' = [closed |-> TRUE, values |-> commits.values \cup {ticker}]
         /\ event' = [kind |-> "enter", open |-> ListOpen, via |-> "now", arg |-> ticker,
                       fetches |-> fetches]
         /\ UNCHANGED <<apiKey, newsKey, searchResults, isSearching, searchTimeout, searchReqs,
                        answered, typed, idle>>
         /\ UNCHANGED timerVars

\* handleKeyDown with e.key = 'Escape'
HandleEscape ==
  /\ showSuggestions
  /\ showSuggestions' = FALSE
  /\ event' = [kind |-> "escape"]
  /\ UNCHANGED <<apiKey, newsKey, searchResults, isSearching, searchTimeout, searchReqs,
                 boundVars, typed, idle, commits>>
  /\ UNCHANGED <<dashVars, chartVars, timerVars>>

\* onFocus of the input
HandleFocus ==
  /\ Len(searchResults) > 0
  /\ ~showSuggestions
  /\ showSuggestions' = TRUE
  /\ commits' = [commits EXCEPT !.closed = FALSE]
  /\ event' = [kind |-> "focus"]
  /\ UNCHANGED <<apiKey, newsKey, searchResults, isSearching, searchTimeout, searchReqs,
                 boundVars, typed, idle>>
  /\ UNCHANGED <<dashVars, chartVars, timerVars>>

\* handleClickOutside: a mousedown outside the input and the rendered dropdown
HandleClickOutside ==
  /\ ListOpen
  /\ showSuggestions' = FALSE
  /\ event' = [kind |-> "outside"]
  /\ UNCHANGED <<apiKey, newsKey, searchResults, isSearching, searchTimeout, searchReqs,
                 boundVars, typed, idle, commits>>
  /\ UNCHANGED <<dashVars, chartVars, timerVars>>

\* onClick of the Analyze button (disabled while loading or with a blank ticker)
HandleAnalyze ==
  /\ ~loading
  /\ trim(ticker) # <<>>
  /\ acts < MaxActs
  /\ acts' = acts + 1
  /\ HandleSearch(ticker)
  /\ submits' = submits + 1
  /\ commits' = [commits EXCEPT !.values = @ \cup {ticker}]
  /\ event' = [kind |-> "analyze", via |-> "now", arg |-> ticker, fetches |-> fetches]
  /\ UNCHANGED <<apiKey, newsKey, searchReqs, answered, typed, idle>>
  /\ UNCHANGED <<inputVars, timerVars>>

\* ---------------------------------------------------------------- timers
Due == {t \in timers : t.left = 0}

\* time advances by one tick; no timer is overdue
Tick ==
  /\ timers # {}
  /\ Due = {}
  /\ timers' = {[t EXCEPT !.left = t.left - 1] : t \in timers}
  /\ idle' = IF idle < DebounceTicks THEN idle + 1 ELSE idle
  /\ event' = [kind |-> "tick"]
  /\ UNCHANGED <<apiKey, newsKey, searchReqs, boundVars, typed, commits, timerCount>>
  /\ UNCHANGED <<dashVars, chartVars, inputVars>>

\* the due timer the event loop runs next: the oldest one
NextDue == CHOOSE t \in Due : \A u \in Due : t.id <= u.id

\* a failure path that leaves the earlier suggestions in place
FailedSearchKeepsResults == searchResults

\* setSearchResults([]) of the no-key, error, rate-limit and catch paths
FailedSearchResults == <<>>

\* searchTickers(query), up to its await
SearchTickers(id, query) ==
  IF query = <<>> \/ Len(query) < MinQueryLen
    THEN /\ searchResults' = <<>>
         /\ showSuggestions' = FALSE
         /\ UNCHANGED <<isSearching, searchReqs>>
    ELSE IF ~apiKey
      THEN /\ searchResults' = FailedSearchResults
           /\ showSuggestions' = FALSE
           /\ isSearching' = FALSE
           /\ UNCHANGED searchReqs
      ELSE /\ isSearching' = TRUE
           /\ searchReqs' = searchReqs \cup {[id |-> id, query |-> query]}
           /\ UNCHANGED <<searchResults, showSuggestions>>

\* the debounce callback: searchTickers(newValue.trim())
DebounceFires ==
  /\ Due # {}
  /\ NextDue.kind = "debounce"
  /\ timers' = timers \ {NextDue}
  /\ SearchTickers(NextDue.id, trim(NextDue.arg))
  /\ event' = [kind |-> "debounce", query |-> trim(NextDue.arg), timer |-> NextDue.id]
  /\ UNCHANGED <<apiKey, newsKey, searchTimeout, timerCount, boundVars, typed, idle, commits>>
  /\ UNCHANGED <<dashVars, chartVars>>

\* the settle callback: onSearch() of the render the selection was made in
SettleFires ==
  /\ Due # {}
  /\ NextDue.kind = "settle"
  /\ timers' = timers \ {NextDue}
  /\ HandleSearch(NextDue.arg)
  /\ event' = [kind |-> "settle", via |-> "now", arg |-> NextDue.arg, timer |-> NextDue.id,
                chosen |-> NextDue.chosen, fetches |-> fetches]
  /\ UNCHANGED <<apiKey, newsKey, searchReqs, timerCount, boundVars, typed, idle, commits>>
  /\ UNCHANGED inputVars

\* --------------------------------------------------------------- responses
\* searchTickers after its await: the provider answered request r
SearchResponseWith(failures, payloads) ==
  \E r \in searchReqs :
    /\ searchReqs' = searchReqs \ {r}
    /\ isSearching' = FALSE
    /\ \/ \E failure \in failures :
            /\ searchResults' = FailedSearchResults
            /\ showSuggestions' = FALSE
            /\ event' = [kind |-> "searchFailed", query |-> r.query, failure |-> failure]
       \/ \E bestMatches \in payloads :
            /\ searchResults' = RankMatches(bestMatches)
            /\ showSuggestions' = (Len(RankMatches(bestMatches)) > 0)
            /\ event' = [kind |-> "searchOk", query |-> r.query, bestMatches |-> bestMatches]
    /\ UNCHANGED <<apiKey, newsKey, searchTimeout, boundVars, typed, idle, commits>>
    /\ UNCHANGED <<dashVars, chartVars, timerVars>>

\* an 'Error Message' payload, a rate-limit 'Note', a rejected request
SearchFailures == {"Error Message", "Note", "throw"}

SearchResponse == SearchResponseWith(SearchFailures, LivePayloads)

NewsKeyMissingMsg == "NewsAPI key not configured"

\* ---------------------------------------------------------- news proxy
\* a provider article, reduced to the fields the proxy reads; a field that is
\* missing (null) reads like the empty text, both being falsy
Article(title, description) == [title |-> title, description |-> description]

Removed == <<"r", "e", "m", "o", "v", "e", "d">>

\* a test for the placeholder that does not fold the case
ValidArticleCaseSensitive(article) ==
  LET title == trim(article.title)
      description == trim(article.description)
  IN /\ title # <<>>
     /\ description # <<>>
     /\ ~Includes(title, Removed)
     /\ ~Includes(description, Removed)

\* the test of the article loop: title and description are there once
\* trimmed, and neither contains "removed" in any case
ValidArticle(article) ==
  LET title == trim(article.title)
      description == trim(article.description)
  IN /\ title # <<>>
     /\ description # <<>>
     /\ ~Includes(toLowerCase(title), Removed)
     /\ ~Includes(toLowerCase(description), Removed)

\* `${title}. ${description}` of the trimmed fields
ArticleText(article) == trim(article.title) \o <<".", " ">> \o trim(article.description)

\* validArticles: the valid ones of the articles, in order
RECURSIVE ValidArticles(_)
ValidArticles(articles) ==
  IF articles = <<>> THEN <<>>
  ELSE IF ValidArticle(Head(articles))
         THEN <<Head(articles)>> \o ValidArticles(Tail(articles))
         ELSE ValidArticles(Tail(articles))

\* Array.prototype.join(' ')
RECURSIVE Join(_)
Join(texts) ==
  IF texts = <<>> THEN <<>>
  ELSE IF Len(texts) = 1 THEN texts[1]
  ELSE texts[1] \o <<" ">> \o Join(Tail(texts))

\* articleTexts.join(' ') of a list of valid articles
CombinedText(validArticles) == Join([i \in DOMAIN validArticles |-> ArticleText(validArticles[i])])

\* a cut that appends nothing
FinalTextCut(combinedText) ==
  IF Len(combinedText) > MaxLength
    THEN SubSeq(combinedText, 1, MaxLength)
    ELSE combinedText

\* finalText: the combined text, cut at maxLength with '...' appended
FinalText(combinedText) ==
  IF Len(combinedText) > MaxLength
    THEN SubSeq(combinedText, 1, MaxLength) \o <<".", ".", ".">>
    ELSE combinedText

\* what the news provider answers: the HTTP status is ok or not, the status
\* field of the body, and its articles
Answer(httpOk, status, articles) == [httpOk |-> httpOk, status |-> status, articles |-> articles]

ShortArticle == Article(<<"U", "p">>, <<"O", "k">>)

\* the provider answers with an article, with none, or with an error status
NewsProviderAnswers ==
  { Answer(TRUE, "ok", <<ShortArticle>>), Answer(TRUE, "ok", <<>>), Answer(FALSE, "", <<>>) }

\* a refusal of the proxy: an error body, after the provider was asked or not
Refused(message, asked) ==
  [ok |-> FALSE, error |-> message, provider |-> asked, text |-> <<>>, articles |-> <<>>]

\* the try block of the proxy: what it makes of the provider's answer
NewsFrom(answer) ==
  LET validArticles == ValidArticles(Slice0(answer.articles, MaxArticles)) IN
  IF ~answer.httpOk THEN Refused("NewsAPI error: 401", TRUE)
  ELSE IF answer.status # "ok" THEN Refused("NewsAPI returned error", TRUE)
  ELSE IF validArticles = <<>> THEN Refused("No recent financial news found", TRUE)
  ELSE [ok |-> TRUE, error |-> "", provider |-> TRUE,
        text |-> FinalText(CombinedText(validArticles)), articles |-> validArticles]

\* a proxy that asks the provider before it looks at its key
NewsRouteAsksFirst(key, answer) ==
  IF ~answer.httpOk THEN NewsFrom(answer)
  ELSE IF key = "" \/ key = PlaceholderNewsKey THEN Refused(NewsKeyMissingMsg, TRUE)
  ELSE NewsFrom(answer)

\* GET of /api/news with a symbol: the response, and whether the provider was
\* called to make it
NewsRoute(key, answer) ==
  IF key = "" \/ key = PlaceholderNewsKey
    THEN Refused(NewsKeyMissingMsg, FALSE)
    ELSE NewsFrom(answer)

\* handleSearch after `await fetchStockNews`: the proxy answered flow f
NewsResponseWith(answers) ==
  \E f \in flows, answer \in answers,
     key \in (IF newsKey = Unread THEN NewsKeys ELSE {newsKey}) :
    LET response == NewsRoute(key, answer) IN
    /\ f.stage = "news"
    /\ newsKey' = key
    /\ IF response.ok
         THEN /\ flows' = (flows \ {f}) \cup {[f EXCEPT !.stage = "sentiment"]}
              /\ UNCHANGED <<loading, error>>
         ELSE /\ flows' = flows \ {f}
              /\ error' = response.error
              /\ loading' = FALSE
    /\ event' = [kind |-> "news", flow |-> f.id, success |-> response.ok,
                 provider |-> response.provider, answer |-> answer,
                 text |-> response.text, articles |-> response.articles]
    /\ UNCHANGED <<ticker, sentimentData, shouldFetchResults, calls>>
    /\ UNCHANGED <<apiKey, searchReqs, boundVars, typed, idle, commits>>
    /\ UNCHANGED <<chartVars, inputVars, timerVars>>

NewsResponse == NewsResponseWith(NewsProviderAnswers)

NoPredictionsMsg == "No predictions received from API"

SentimentFailures ==
  { "error field", NoPredictionsMsg, "Request timed out", "Network error" }

\* a failure path that stores a neutral default verdict
FailedSentimentNeutral(current) ==
  <<[result |-> processApiResponse(<<>>), news |-> <<>>]>>

\* the catch path of handleSearch makes no call of setSentimentData
FailedSentimentData(current) == current

\* handleSearch after `await axios.post(.../api/analyze)`
SentimentResponseWith(predictionLists) ==
  \E f \in flows :
    /\ f.stage = "sentiment"
    /\ flows' = flows \ {f}
    /\ loading' = FALSE
    /\ \/ \E failure \in SentimentFailures :
            /\ error' = failure
            /\ sentimentData' = FailedSentimentData(sentimentData)
            /\ event' = [kind |-> "sentimentFailed", flow |-> f.id, failure |-> failure]
       \/ \E predictions \in predictionLists :
            /\ sentimentData' = <<[result |-> processApiResponse(predictions), news |-> f.ticker]>>
            /\ UNCHANGED error
            /\ event' = [kind |-> "sentimentOk", flow |-> f.id, predictions |-> predictions]
    /\ UNCHANGED <<ticker, shouldFetchResults, calls>>
    /\ UNCHANGED <<apiKey, newsKey, searchReqs, boundVars, typed, idle, commits>>
    /\ UNCHANGED <<chartVars, inputVars, timerVars>>

SentimentResponse == SentimentResponseWith(LivePredictions)

\* messages of a request that is rejected (axios throws)
ChartFailures == { "Network Error", "Request failed with status code 500" }

Newer(a, b) == IF a >= b THEN a ELSE b

\* a success path that drops the response of a request older than one already answered
ChartSucceededUnlessStale(st, r, series) ==
  IF r.id < st.newest THEN st
  ELSE [st EXCEPT !.data = <<[ticker |-> r.ticker, id |-> r.id, series |-> series]>>,
                  !.loading = FALSE, !.newest = Newer(@, r.id)]

\* fetch...Data after its await, success path: set...Data(series); setLoading(false)
ChartSucceeded(st, r, series) ==
  [st EXCEPT !.data = <<[ticker |-> r.ticker, id |-> r.id, series |-> series]>>,
             !.loading = FALSE, !.newest = Newer(@, r.id)]

\* a catch path that leaves the spinner on
ChartFailedStillLoading(st, r, failure) ==
  [st EXCEPT !.error = failure, !.newest = Newer(@, r.id)]

\* fetch...Data after its await, catch path: setError(message); setLoading(false)
ChartFailed(st, r, failure) ==
  [st EXCEPT !.error = failure, !.loading = FALSE, !.newest = Newer(@, r.id)]

\* a state update that reaches every chart instead of the component's own state
SetChartStateShared(cs, c, st) == [d \in Charts |-> st]

\* the useState setters of chart component c write that component's state
SetChartState(cs, c, st) == [cs EXCEPT ![c] = st]

\* fetch...Data after `await axios.get(url)`: request r was rejected with one
\* of the failures, or answered with one of the payloads of its chart
ChartResponseWith(failures, payloads) ==
  \E r \in chartReqs :
    /\ answered < MaxAnswers
    /\ answered' = answered + 1
    /\ chartReqs' = chartReqs \ {r}
    /\ \/ \E failure \in failures :
            /\ chart' = SetChartState(chart, r.chart, ChartFailed(chart[r.chart], r, failure))
            /\ event' = [kind |-> "chartFailed", chart |-> r.chart, id |-> r.id,
                         rejected |-> TRUE]
       \/ \E payload \in payloads[r.chart] :
            LET outcome == Outcome(r.chart, payload) IN
            IF outcome.ok
              THEN /\ chart' = SetChartState(chart, r.chart,
                                 ChartSucceeded(chart[r.chart], r, outcome.series))
                   /\ event' = [kind |-> "chartOk", chart |-> r.chart, id |-> r.id,
                                payload |-> payload]
              ELSE /\ chart' = SetChartState(chart, r.chart,
                                 ChartFailed(chart[r.chart], r, outcome.error))
                   /\ event' = [kind |-> "chartFailed", chart |-> r.chart, id |-> r.id,
                                rejected |-> FALSE, payload |-> payload]
    /\ UNCHANGED fetches
    /\ UNCHANGED <<apiKey, newsKey, searchReqs, submits, acts, typed, idle, commits>>
    /\ UNCHANGED <<dashVars, inputVars, timerVars>>

\* annual reports of the years y down to y - n + 1, latest first as the
\* provider lists them
RECURSIVE EarningsReports(_, _)
EarningsReports(y, n) ==
  IF n = 0 THEN <<>>
  ELSE <<[fiscalDateEnding |-> DateText(y, 12), reportedEPS |-> AmountText(n)]>>
         \o EarningsReports(y - 1, n - 1)

RECURSIVE CashFlowReports(_, _)
CashFlowReports(y, n) ==
  IF n = 0 THEN <<>>
  ELSE <<[fiscalDateEnding |-> DateText(y, 12), operatingCashflow |-> AmountText(n + 1),
          capitalExpenditures |-> <<"-">> \o AmountText(1), netIncome |-> AmountText(n)]>>
         \o CashFlowReports(y - 1, n - 1)

RECURSIVE IncomeReports(_, _)
IncomeReports(y, n) ==
  IF n = 0 THEN <<>>
  ELSE <<[fiscalDateEnding |-> DateText(y, 12), totalRevenue |-> AmountText(n + 2),
          netIncome |-> AmountText(n), operatingIncome |-> AmountText(n + 1),
          grossProfit |-> AmountText(n + 2)]>>
         \o IncomeReports(y - 1, n - 1)

MonthlyRecord(y, m, amount) == [date |-> DateText(y, m), amount |-> amount]

\* one well-formed payload per chart, for the dashboard model
LiveChartPayloads ==
  [c \in Charts |->
     CASE c = "earnings"  -> {Payload("", FALSE, EarningsReports(2021, 2))}
       [] c = "dividends" -> {Payload("", FALSE, <<MonthlyRecord(2021, 3, AmountText(5))>>)}
       [] c = "cashflow"  -> {Payload("", FALSE, CashFlowReports(2021, 2))}
       [] c = "income"    -> {Payload("", FALSE, IncomeReports(2021, 2))}]

\* a render that shows a stored series before it looks at the error
ViewDataFirst(st) ==
  IF st.loading THEN "loading"
  ELSE IF st.data # NoData THEN "chart"
  ELSE IF st.error # "" THEN "error"
  ELSE "placeholder"

\* what a chart component renders: the spinner, the error panel with its
\* Retry button, the placeholder, or the chart with its summary
View(st) ==
  IF st.loading THEN "loading"
  ELSE IF st.error # "" THEN "error"
  ELSE IF st.data = NoData THEN "placeholder"
  ELSE "chart"

\* onClick of the Retry button a chart renders in its error state
HandleRetry ==
  \E c \in Charts :
    /\ View(chart[c]) = "error"
    /\ acts < MaxActs
    /\ acts' = acts + 1
    /\ chart' = SetChartState(chart, c, FetchStarted(chart[c], ticker))
    /\ chartReqs' = chartReqs \cup FetchRequests({c}, ticker)
    /\ fetches' = fetches + 1
    /\ event' = [kind |-> "retry", chart |-> c]
    /\ UNCHANGED <<apiKey, newsKey, searchReqs, submits, answered, typed, idle, commits>>
    /\ UNCHANGED <<dashVars, inputVars, timerVars>>

\* ------------------------------------------------------------ specification
\* values typed in the dashboard-and-charts specification
ChartTypedValues == { <<"A", "B">>, <<"t", "s", "l">>, <<"T", "S", "L", "A">> }

\* the dashboard and its charts: the user types and commits, retries a failed
\* chart, and the market-data provider answers; timers do not come due
Next ==
  \/ \E raw \in ChartTypedValues : HandleInputChange(raw)
  \/ HandleEnter
  \/ HandleAnalyze
  \/ ChartResponseWith({"Network Error"}, LiveChartPayloads)
  \/ HandleRetry

Spec == Init /\ [][Next]_vars

\* the search box: the user types, chooses and commits, timers run and the
\* symbol search answers; the requests of the dashboard and of the charts
\* stay in flight
NextInput ==
  \/ \E raw \in TypedValues : HandleInputChange(raw)
  \/ HandleSuggestionClick
  \/ HandleEnter
  \/ HandleEscape
  \/ HandleFocus
  \/ HandleClickOutside
  \/ Tick
  \/ DebounceFires
  \/ SettleFires
  \/ SearchResponse

SpecInput == Init /\ [][NextInput]_vars

\* ------------------------------------------------------------------ claims
DebounceTimers == {t \in timers : t.kind = "debounce"}
SettleTimers   == {t \in timers : t.kind = "settle"}

C2_SelectionProtocol ==
  /\ (event.kind \in {"click", "enter"} /\ event.open) =>
        /\ event.via = "timer"
        /\ ~showSuggestions
        /\ searchResults = <<>>
        /\ ticker = event.symbol
        /\ \E i \in DOMAIN event.listed : event.listed[i] = event.symbol
        /\ event.kind = "enter" => event.symbol = event.listed[1]
        /\ \E t \in SettleTimers : t.id = event.timer /\ t.left = SettleTicks
  /\ calls + Cardinality(SettleTimers) = submits
  /\ \A t \in SettleTimers : t.left <= SettleTicks

\* a suggestion was chosen with Enter and the host's search is pending
C2_Witness ==
  /\ event.kind = "enter"
  /\ event.open
  /\ ticker = TSLA.symbol
  /\ Cardinality(SettleTimers) = 1
  /\ calls = 0

\* the static table the fallback policy speaks of: well-known symbols and names
FallbackTable ==
  << [symbol |-> <<"A", "A", "P", "L">>, name |-> <<"A", "p", "p", "l", "e", " ", "I", "n", "c">>],
     [symbol |-> <<"T", "S", "L", "A">>, name |-> <<"T", "e", "s", "l", "a", " ", "I", "n", "c">>] >>

\* case-insensitive substring match of the query against symbol or name
FallbackMatches(entry, query) ==
  \/ Includes(toUpperCase(entry.symbol), toUpperCase(query))
  \/ Includes(toUpperCase(entry.name), toUpperCase(query))

RECURSIVE FallbackFilter(_, _)
FallbackFilter(table, query) ==
  IF table = <<>> THEN <<>>
  ELSE IF FallbackMatches(Head(table), query)
         THEN <<Head(table).symbol>> \o FallbackFilter(Tail(table), query)
         ELSE FallbackFilter(Tail(table), query)

FallbackSuggestions(query) == Slice0(FallbackFilter(FallbackTable, query), 5)

\* the search just ended without a key, or on an error or rate-limit payload
SearchFellBack ==
  \/ event.kind = "debounce" /\ ~apiKey /\ Len(event.query) >= MinQueryLen
  \/ event.kind = "searchFailed" /\ event.failure \in {"Error Message", "Note"}

C7_TypedQueriesHaveThreeChars ==
  /\ \A r \in searchReqs : Len(r.query) >= MinTypedLen
  /\ (event.kind = "type" /\ Len(event.value) < MinTypedLen) =>
        /\ searchResults = <<>>
        /\ ~showSuggestions
        /\ DebounceTimers = {}

\* C8: Enter with no suggestion list open invokes the host's search in the
\* same step, with the current input text as the ticker, whether or not a
\* debounce timer is pending.
C8_EnterCommitsAtOnce ==
  (event.kind = "enter" /\ ~event.open) =>
    /\ event.via = "now"
    /\ event.arg = ticker
    /\ ~showSuggestions
    /\ calls >= 1
    /\ IF trim(ticker) = <<>>
         THEN error = BlankTickerMsg
         ELSE /\ \E f \in flows : f.id = calls /\ f.ticker = ticker /\ f.stage = "news"
              /\ loading
              /\ shouldFetchResults
              /\ error = ""
              /\ sentimentData = NoResult

\* Enter committed the typed text while its debounce timer was still pending
C8_Witness ==
  /\ event.kind = "enter"
  /\ ~event.open
  /\ ticker = <<"T", "S", "L", "A">>
  /\ \E t \in DebounceTimers : t.left > 0
  /\ \E f \in flows : f.ticker = <<"T", "S", "L", "A">>

OwnStep(c) ==
  \/ event'.kind \in {"chartOk", "chartFailed", "retry"} /\ event'.chart = c
  \/ event'.kind \in {"enter", "analyze", "settle"} /\ fetches' = fetches + 1

\* C4: the loading/error/data state of a chart changes only in that chart's
\* own steps; a response to, or a retry of, another chart leaves it unchanged.
C4_ChartsIndependent ==
  [][\A c \in Charts : chart'[c] # chart[c] => OwnStep(c)]_vars

\* one chart failed, another succeeded, a third is still waiting
C4_Witness ==
  \E a, b, c \in Charts :
    /\ chart[a].error # "" /\ ~chart[a].loading
    /\ chart[b].error = "" /\ ~chart[b].loading /\ chart[b].data # NoData
    /\ chart[c].loading /\ \E r \in chartReqs : r.chart = c

\* C5 as stated: every search submission with a ticker of at least 3
\* characters and no space makes each of the four charts issue a fetch.
C5_EverySubmissionFetches ==
  (/\ event.kind \in {"enter", "analyze", "settle"}
   /\ event.via = "now"
   /\ trim(event.arg) # <<>>
   /\ Len(ticker) >= MinChartLen
   /\ ~IncludesSpace(ticker)) =>
    /\ fetches = event.fetches + 1
    /\ apiKey => \A c \in Charts : \E r \in chartReqs : r.chart = c /\ r.id = fetches

\* ---------------------------------------------- ranking of live results
RankTypedValues == {<<"T", "S", "L", "A">>}

NextRank ==
  \/ \E raw \in RankTypedValues : HandleInputChange(raw)
  \/ Tick
  \/ DebounceFires
  \/ SearchResponseWith({"Note"}, RankPayloads)

SpecRank == Init /\ [][NextRank]_vars

Count(list, m) == Cardinality({i \in DOMAIN list : list[i] = m})

IsUSEquity(m) == m.type = "Equity" /\ m.region = "United States"

Listed(list) == Cardinality({i \in DOMAIN list : IsUSEquity(list[i])})

\* C9: after a successful live search the list holds only Equity / United
\* States matches of the payload, in non-increasing score order, as many as
\* the payload has up to 8, none left out that scores above a listed one; the
\* list is open exactly when it is non-empty.
C9_LiveResultsRanked ==
  event.kind = "searchOk" =>
    /\ \A i \in DOMAIN searchResults : IsUSEquity(searchResults[i])
    /\ \A i, j \in DOMAIN searchResults :
         i < j => parseFloat(searchResults[i].matchScore) >= parseFloat(searchResults[j].matchScore)
    /\ Len(searchResults) =
         (IF Listed(event.bestMatches) < MaxLive THEN Listed(event.bestMatches) ELSE MaxLive)
    /\ \A m \in MatchPool : Count(searchResults, m) <= Count(event.bestMatches, m)
    /\ \A m \in MatchPool :
         (IsUSEquity(m) /\ Count(searchResults, m) < Count(event.bestMatches, m)) =>
           parseFloat(m.matchScore) <= parseFloat(searchResults[Len(searchResults)].matchScore)
    /\ showSuggestions = (searchResults # <<>>)

\* a payload with more than 8 listed equities out of score order and other
\* matches among them was ranked and cut to 8
C9_Witness ==
  /\ event.kind = "searchOk"
  /\ Listed(event.bestMatches) > MaxLive
  /\ Listed(event.bestMatches) < Len(event.bestMatches)
  /\ Len(searchResults) = MaxLive
  /\ searchResults # Slice0(FilterUSEquity(event.bestMatches), MaxLive)
  /\ showSuggestions

\* ------------------------------------------------- sentiment normalizer
SentimentTypedValues == {<<"T", "S", "L", "A">>}

NextSentiment ==
  \/ \E raw \in SentimentTypedValues : HandleInputChange(raw)
  \/ HandleAnalyze
  \/ NewsResponse
  \/ SentimentResponseWith(AllPredictionLists \cup LivePredictions \cup SlotPredictionLists)

SpecSentiment == Init /\ [][NextSentiment]_vars

\* C10: the class is positive if the positive slot is the largest of the
\* three, otherwise negative if the negative slot is, otherwise neutral; the
\* confidence is the value of the chosen class's slot.
C10_ClassChoice ==
  event.kind = "sentimentOk" =>
    LET result == sentimentData[1].result
        slots == result.probabilities
        Largest(x) == x >= slots.positive /\ x >= slots.negative /\ x >= slots.neutral
    IN /\ result.sentiment = (IF Largest(slots.positive) THEN "positive"
                              ELSE IF Largest(slots.negative) THEN "negative"
                              ELSE "neutral")
       /\ result.confidence = slots[result.sentiment]

\* a positive/negative tie above neutral was reported as positive
C10_Witness ==
  /\ event.kind = "sentimentOk"
  /\ sentimentData[1].result.probabilities.positive
       = sentimentData[1].result.probabilities.negative
  /\ sentimentData[1].result.probabilities.positive
       > sentimentData[1].result.probabilities.neutral
  /\ sentimentData[1].result.sentiment = "positive"
  /\ sentimentData[1].result.confidence = sentimentData[1].result.probabilities.positive

\* the slot a label maps to: the first of the patterns its lower-cased text holds
SlotOf(label) ==
  IF Includes(toLowerCase(label), <<"p", "o", "s">>) THEN "positive"
  ELSE IF Includes(toLowerCase(label), <<"n", "e", "g">>) THEN "negative"
  ELSE IF Includes(toLowerCase(label), <<"n", "e", "u">>) THEN "neutral"
  ELSE "none"

\* the score of the last prediction of the list that maps to the slot, else 0
LastScore(preds, slot) ==
  LET at == {i \in DOMAIN preds : SlotOf(preds[i].label) = slot}
  IN IF at = {} THEN 0 ELSE preds[CHOOSE i \in at : \A j \in at : j <= i].score

\* C11: each of the three slots holds the score of the last prediction in list
\* order whose lower-cased label maps to it, and 0 if none does; a prediction
\* whose label holds none of the patterns changes no slot.
C11_SlotsLastWriteWins ==
  event.kind = "sentimentOk" =>
    \A slot \in {"positive", "negative", "neutral"} :
      sentimentData[1].result.probabilities[slot] = LastScore(event.predictions, slot)

\* two predictions mapped to one slot, one label held two patterns and one none
C11_Witness ==
  /\ event.kind = "sentimentOk"
  /\ event.predictions = <<Pred(LabelMixed, 1), Pred(LabelOther, MaxScore), Pred(LabelPos, MaxScore)>>
  /\ sentimentData[1].result.probabilities = [positive |-> MaxScore, neutral |-> 0, negative |-> 0]

\* ------------------------------------------------------ the analysis flow
FlowTypedValues == {<<"T", "S", "L", "A">>, <<" ", " ", " ">>}

\* the user types and commits with Enter (which is not disabled while an
\* analysis is loading), the news proxy and the sentiment service answer
NextFlow ==
  \/ \E raw \in FlowTypedValues : HandleInputChange(raw)
  \/ HandleEnter
  \/ NewsResponse
  \/ SentimentResponseWith(LivePredictions)

SpecFlow == Init /\ [][NextFlow]_vars

NoPredictions == event.kind = "sentimentFailed" /\ event.failure = NoPredictionsMsg

\* C12 as stated: a response without a predictions field ends the analysis
\* with a non-empty error message, loading false and a null stored result.
C12_NoPredictionsNoVerdict ==
  NoPredictions =>
    /\ error # ""
    /\ ~loading
    /\ sentimentData = NoResult

\* C12 amended: a response without a predictions field sets the error message,
\* clears loading and stores no result of its own: the stored result is what
\* it was before the response, which is null unless an overlapping analysis
\* has stored its verdict since this one began.
C12_NoPredictionsStoresNothing ==
  [][(event'.kind = "sentimentFailed" /\ event'.failure = NoPredictionsMsg) =>
        /\ error' = NoPredictionsMsg
        /\ ~loading'
        /\ sentimentData' = sentimentData
        /\ calls = 1 => sentimentData' = NoResult]_vars

\* the only analysis so far ended without predictions: error shown, no verdict
C12_Witness ==
  /\ NoPredictions
  /\ calls = 1
  /\ error = NoPredictionsMsg
  /\ ~loading
  /\ sentimentData = NoResult

\* ------------------------------------------------- market-data payloads
ProviderErrorText == "Invalid API call"

\* the payloads without data: an 'Error Message', a rate-limit 'Note', an
\* empty or absent list
EmptyPayloads ==
  { Payload(ProviderErrorText, FALSE, <<>>), Payload("", TRUE, <<>>), Payload("", FALSE, <<>>) }

\* annual earnings: latest first, oldest first, two reports in one calendar
\* year, more than ten, a year of zero earnings before a year of profit, and
\* a year of loss before two years of the same profit
EarningsPayloads ==
  EmptyPayloads \cup
  { Payload("", FALSE, EarningsReports(2021, 2)),
    Payload("", FALSE, Reverse(EarningsReports(2021, 2))),
    Payload("", FALSE, <<[fiscalDateEnding |-> DateText(2020, 12), reportedEPS |-> AmountText(12)],
                         [fiscalDateEnding |-> DateText(2020, 6), reportedEPS |-> AmountText(10)]>>),
    Payload("", FALSE, EarningsReports(2021, MaxStored + 1)),
    Payload("", FALSE, <<[fiscalDateEnding |-> DateText(2021, 12), reportedEPS |-> AmountText(12)],
                         [fiscalDateEnding |-> DateText(2020, 12), reportedEPS |-> AmountText(0)]>>),
    Payload("", FALSE, <<[fiscalDateEnding |-> DateText(2021, 12), reportedEPS |-> AmountText(10)],
                         [fiscalDateEnding |-> DateText(2020, 12), reportedEPS |-> AmountText(10)],
                         [fiscalDateEnding |-> DateText(2019, 12), reportedEPS |-> <<"-">> \o AmountText(5)]>>) }

\* monthly records: payments in two years, and months without a payment only
DividendsPayloads ==
  EmptyPayloads \cup
  { Payload("", FALSE, <<MonthlyRecord(2021, 3, AmountText(5)), MonthlyRecord(2020, 12, AmountText(2)),
                         MonthlyRecord(2020, 9, AmountText(0)), MonthlyRecord(2020, 6, AmountText(3))>>),
    Payload("", FALSE, <<MonthlyRecord(2021, 3, AmountText(0)), MonthlyRecord(2021, 2, NoneText)>>) }

CashFlowPayloads ==
  EmptyPayloads \cup
  { Payload("", FALSE, CashFlowReports(2021, 2)),
    Payload("", FALSE, Reverse(CashFlowReports(2021, MaxStored + 1))),
    Payload("", FALSE, <<[fiscalDateEnding |-> DateText(2020, 12), operatingCashflow |-> AmountText(30),
                          capitalExpenditures |-> AmountText(10), netIncome |-> AmountText(5)],
                         [fiscalDateEnding |-> DateText(2020, 6), operatingCashflow |-> AmountText(20),
                          capitalExpenditures |-> AmountText(10), netIncome |-> NoneText]>>) }

IncomePayloads ==
  EmptyPayloads \cup
  { Payload("", FALSE, IncomeReports(2021, 2)),
    Payload("", FALSE, Reverse(IncomeReports(2021, MaxStored + 1))),
    Payload("", FALSE, <<[fiscalDateEnding |-> DateText(2021, 12), totalRevenue |-> AmountText(20),
                          netIncome |-> AmountText(5), operatingIncome |-> AmountText(6),
                          grossProfit |-> AmountText(9)],
                         [fiscalDateEnding |-> DateText(2020, 12), totalRevenue |-> NoneText,
                          netIncome |-> <<"-">> \o AmountText(5), operatingIncome |-> <<"-">> \o AmountText(4),
                          grossProfit |-> AmountText(0)]>>),
    Payload("", FALSE, <<[fiscalDateEnding |-> DateText(2021, 12), totalRevenue |-> AmountText(0),
                          netIncome |-> <<"-">> \o AmountText(5), operatingIncome |-> <<"-">> \o AmountText(4),
                          grossProfit |-> AmountText(0)]>>) }

SeriesPayloads ==
  [c \in Charts |->
     CASE c = "earnings"  -> EarningsPayloads
       [] c = "dividends" -> DividendsPayloads
       [] c = "cashflow"  -> CashFlowPayloads
       [] c = "income"    -> IncomePayloads]

SeriesTypedValues == {<<"T", "S", "L", "A">>}

\* the charts with the payloads of the provider: the user types and commits,
\* the market-data provider answers or the request is rejected
NextSeries ==
  \/ \E raw \in SeriesTypedValues : HandleInputChange(raw)
  \/ HandleEnter
  \/ ChartResponseWith({"Network Error"}, SeriesPayloads)

SpecSeries == Init /\ [][NextSeries]_vars

\* a payload that carries no data for chart c
WithoutData(c, payload) ==
  \/ payload.errorMessage # ""
  \/ payload.note
  \/ payload.records = <<>>
  \/ SeriesOf(c, payload.records) = <<>>

\* C13: a chart fetch that completes with a payload carrying an error message,
\* a rate-limit note or an empty series ends with a non-empty error message
\* and loading false; the component shows its error panel, neither the
\* spinner nor a chart.
C13_EmptyPayloadIsError ==
  (/\ event.kind \in {"chartOk", "chartFailed"}
   /\ "payload" \in DOMAIN event
   /\ WithoutData(event.chart, event.payload)) =>
    /\ event.kind = "chartFailed"
    /\ chart[event.chart].error # ""
    /\ ~chart[event.chart].loading
    /\ View(chart[event.chart]) = "error"

\* a rate-limit note ended the fetch of the dividends chart: error panel
C13_Witness ==
  /\ event.kind = "chartFailed"
  /\ ~event.rejected
  /\ event.payload.note
  /\ event.chart = "dividends"
  /\ chart["dividends"].error = NoDataMsg("dividends")
  /\ View(chart["dividends"]) = "error"

NewsKeyAbsent == newsKey = "" \/ newsKey = PlaceholderNewsKey

ShownSeries(c) == IF View(chart[c]) = "chart" THEN chart[c].data[1].series ELSE <<>>

EPS(entry) == OrZero(parseAmount(entry.reportedEPS))

\* C16: wherever year-over-year growth is displayed (the earnings tooltip, the
\* earnings summary card, the revenue-growth card of the income statement), a
\* previous value of 0 with a current value above 0 shows the growth as
\* unavailable, never as a number.
C16_ZeroBaseGrowthUnavailable ==
  LET earningsData == ShownSeries("earnings")
      incomeData == ShownSeries("income")
  IN /\ \A i \in 2..Len(earningsData) :
          EPS(earningsData[i - 1]) = 0 /\ EPS(earningsData[i]) > 0
            => EarningsTooltipGrowth(earningsData, i) = NotAvailable
     /\ Len(earningsData) >= 2
          /\ EPS(earningsData[Len(earningsData) - 1]) = 0
          /\ EPS(earningsData[Len(earningsData)]) > 0
          => EarningsSummaryGrowth(earningsData) = NotAvailable
     /\ Len(incomeData) >= 2
          /\ incomeData[Len(incomeData) - 1].totalRevenue = 0
          /\ incomeData[Len(incomeData)].totalRevenue > 0
          => RevenueGrowth(incomeData) = NotAvailable

\* ------------------------------------------------------------------- C17
\* the year of an entry of a stored series, as the chart labels it
YearOf(c, entry) ==
  IF c = "earnings" THEN parseInt(formatDate(entry.fiscalDateEnding)) ELSE parseInt(entry.year)

\* the years of the periods a payload reports: for the dividends the years
\* with a month that paid, for the others the years of the annual reports
PayloadYears(c, records) ==
  IF c = "dividends"
    THEN { parseInt(Substring04(records[i].date)) :
             i \in { j \in DOMAIN records : OrZero(parseAmount(records[j].amount)) > 0 } }
    ELSE { parseInt(Substring04(records[i].fiscalDateEnding)) : i \in DOMAIN records }

Ascending(c, series) ==
  \A i, j \in DOMAIN series : i < j => YearOf(c, series[i]) <= YearOf(c, series[j])

\* no period the payload reports and the series leaves out is later than one
\* the series holds
MostRecent(c, series, records) ==
  LET stored == { YearOf(c, series[i]) : i \in DOMAIN series }
  IN /\ stored \subseteq PayloadYears(c, records)
     /\ \A y \in PayloadYears(c, records) \ stored : \A z \in stored : y <= z

\* C17: the series a chart fetch has just stored is in ascending year order,
\* has at most ten entries, and holds the most recent periods of the payload,
\* in whatever order the payload lists its records.
C17_StoredSeriesRecentAscending ==
  event.kind = "chartOk" =>
    LET series == chart[event.chart].data[1].series
    IN /\ Ascending(event.chart, series)
       /\ Len(series) <= MaxStored
       /\ MostRecent(event.chart, series, event.payload.records)

\* ------------------------------------------------------------------- C18
\* C18: in every series a chart holds from a fetch, no two entries have the
\* same year.
C18_YearsUnique ==
  \A c \in Charts :
    chart[c].data # NoData =>
      LET series == chart[c].data[1].series
      IN \A i, j \in DOMAIN series : i # j => YearOf(c, series[i]) # YearOf(c, series[j])

\* ------------------------------------------------------------------- C19
\* the months a monthly series may report, latest first as the provider lists
\* them: two of them in one year
MonthPool == <<DateText(2021, 3), DateText(2020, 12), DateText(2020, 6), DateText(2019, 9)>>

\* a month's dividend amount: none paid, two different payments, no amount
DividendAmounts == {AmountText(0), AmountText(5), AmountText(12), NoneText}

MonthIndex(date) == CHOOSE k \in DOMAIN MonthPool : MonthPool[k] = date

\* every monthly series of at most MaxMonths of these months, latest first
MonthlySeries ==
  { monthly \in SeqsUpTo({MonthlyRecord(2021, 3, a) : a \in DividendAmounts}
                           \cup {MonthlyRecord(2020, 12, a) : a \in DividendAmounts}
                           \cup {MonthlyRecord(2020, 6, a) : a \in DividendAmounts}
                           \cup {MonthlyRecord(2019, 9, a) : a \in DividendAmounts}, MaxMonths) :
      \A i, j \in DOMAIN monthly : i < j => MonthIndex(monthly[i].date) < MonthIndex(monthly[j].date) }

DividendsOnlyPayloads ==
  [c \in Charts |->
     IF c = "dividends" THEN { Payload("", FALSE, monthly) : monthly \in MonthlySeries }
     ELSE LiveChartPayloads[c]]

\* the dividends chart under every monthly series: the user types and
\* commits, the market-data provider answers or the request is rejected
NextDividends ==
  \/ \E raw \in SeriesTypedValues : HandleInputChange(raw)
  \/ HandleEnter
  \/ ChartResponseWith({"Network Error"}, DividendsOnlyPayloads)

SpecDividends == Init /\ [][NextDividends]_vars

\* the monthly records that contribute to a year: those of that year whose
\* dividend is above 0
Contributing(records, year) ==
  { i \in DOMAIN records :
      Substring04(records[i].date) = year /\ OrZero(parseAmount(records[i].amount)) > 0 }

RECURSIVE SumOfAmounts(_, _)
SumOfAmounts(records, indices) ==
  IF indices = {} THEN 0
  ELSE LET i == CHOOSE k \in indices : TRUE
       IN parseAmount(records[i].amount)[1] + SumOfAmounts(records, indices \ {i})

\* C19: each yearly entry of the dividends series just stored has a month of
\* its year that paid a dividend above 0, and its totalDividend is the sum of
\* the amounts of those months.
C19_YearlyTotals ==
  event.kind = "chartOk" /\ event.chart = "dividends" =>
    LET series == chart["dividends"].data[1].series
        records == event.payload.records
    IN \A k \in DOMAIN series :
         /\ Contributing(records, series[k].year) # {}
         /\ series[k].totalDividend = SumOfAmounts(records, Contributing(records, series[k].year))

\* a year with two paying months and a month without a payment beside it
C19_Witness ==
  /\ event.kind = "chartOk"
  /\ event.chart = "dividends"
  /\ event.payload.records = <<MonthlyRecord(2021, 3, AmountText(0)),
                               MonthlyRecord(2020, 12, AmountText(5)),
                               MonthlyRecord(2020, 6, AmountText(12))>>
  /\ chart["dividends"].data[1].series = <<[year |-> <<"2", "0", "2", "0">>, totalDividend |-> 17]>>

\* ------------------------------------------------------------------- C20
\* what JavaScript prints for a ratio whose denominator was 0
DivisionByZero == {"Infinity", "-Infinity", "NaN"}

\* C20: no ratio on display is the result of a division by zero: the gross,
\* operating and net margins of the income-statement tooltip, the Net Margin
\* card of its summary and the FCF Conversion card of the cash-flow summary.
C20_RatiosGuarded ==
  LET incomeData == ShownSeries("income")
      cashFlowData == ShownSeries("cashflow")
  IN /\ \A i \in DOMAIN incomeData :
          /\ TooltipMargin(incomeData[i].grossProfit, incomeData[i].totalRevenue).shown \notin DivisionByZero
          /\ TooltipMargin(incomeData[i].operatingIncome, incomeData[i].totalRevenue).shown \notin DivisionByZero
          /\ TooltipMargin(incomeData[i].netIncome, incomeData[i].totalRevenue).shown \notin DivisionByZero
     /\ incomeData # <<>> => ProfitMargin(incomeData).shown \notin DivisionByZero
     /\ cashFlowData # <<>> => FcfConversion(cashFlowData).shown \notin DivisionByZero

\* ------------------------------------------------------------------- C21
\* the value of a bar of a single-series chart
BarValue(c, entry) == IF c = "earnings" THEN EPS(entry) ELSE entry.totalDividend

BarColor(c, series, index) ==
  IF c = "earnings" THEN EarningsColor(series, index) ELSE DividendsColor(series, index)

\* C21: in the earnings and dividends bar charts the first bar has the baseline
\* colour; a later bar has the negative colour when its value is negative, and
\* otherwise the growth colour when its value is above the previous one, the
\* decline colour when below, and a colour of its own, neither the growth nor
\* the decline colour, when equal.
C21_BarColours ==
  \A c \in {"earnings", "dividends"} :
    LET series == ShownSeries(c)
    IN \A i \in DOMAIN series :
         IF i = 1 THEN BarColor(c, series, i) = Blue
         ELSE IF BarValue(c, series[i]) < 0 THEN BarColor(c, series, i) = Red
         ELSE IF BarValue(c, series[i]) > BarValue(c, series[i - 1]) THEN BarColor(c, series, i) = Green
         ELSE IF BarValue(c, series[i]) < BarValue(c, series[i - 1]) THEN BarColor(c, series, i) = Amber
         ELSE BarColor(c, series, i) \notin {Blue, Green, Amber}

\* ------------------------------------------------------------ C22, C23
\* a description that fills the budget exactly behind the title "Up. "
LongDescription == [i \in 1..(MaxLength - 4) |-> "x"]

\* an article whose text has exactly maxLength characters
LongArticle == Article(<<"U", "p">>, LongDescription)

RemovedArticle == Article(<<"[", "R", "e", "m", "o", "v", "e", "d", "]">>, <<"O", "k">>)

\* short provider articles: a usable one, the provider's placeholder for a
\* removed article, one with a title of white space, one with a padded title
\* and no description
ArticlePool ==
  { ShortArticle, RemovedArticle, Article(<<" ">>, <<"O", "k">>), Article(<<" ", "U", "p">>, <<>>) }

\* lists with the long article: alone, before and behind a short one, and
\* behind the three articles the proxy reads
LongLists ==
  { <<LongArticle>>, <<LongArticle, ShortArticle>>, <<RemovedArticle, ShortArticle, LongArticle>>,
    <<ShortArticle, RemovedArticle, ShortArticle, LongArticle>> }

\* the provider's answers: every list of short articles of up to one more
\* than the proxy reads, the lists with the long article, an error status in
\* the body, an HTTP error
NewsAnswers ==
  { Answer(TRUE, "ok", articles) : articles \in SeqsUpTo(ArticlePool, MaxArticles + 1) \cup LongLists }
    \cup { Answer(TRUE, "error", <<ShortArticle>>), Answer(FALSE, "", <<>>) }

\* the analysis flow with the articles of the provider: the user types and
\* clicks Analyze, the news proxy and the sentiment service answer
NextNews ==
  \/ \E raw \in SeriesTypedValues : HandleInputChange(raw)
  \/ HandleAnalyze
  \/ NewsResponseWith(NewsAnswers)
  \/ SentimentResponse

SpecNews == Init /\ [][NextNews]_vars

\* C22: the text of a successful response of the news proxy has at most
\* maxLength (2000) characters.
C22_TextWithinBudget ==
  (event.kind = "news" /\ event.success) => Len(event.text) <= MaxLength

\* an article the proxy may pass on: title and description are not blank and
\* neither contains "removed" in any case
Usable(article) ==
  /\ trim(article.title) # <<>>
  /\ trim(article.description) # <<>>
  /\ ~Includes(toLowerCase(article.title), Removed)
  /\ ~Includes(toLowerCase(article.description), Removed)

\* the first maxLength characters of a text
Budget(text) == SubSeq(text, 1, IF Len(text) < MaxLength THEN Len(text) ELSE MaxLength)

\* C23: a successful response of the news proxy carries at most three
\* articles, each usable, and its text is the joined "title. description" of
\* exactly those articles (whole, or its first maxLength characters); when
\* none of the articles the proxy read is usable it answers with an error.
C23_SurvivingArticles ==
  event.kind = "news" /\ event.provider /\ event.answer.httpOk /\ event.answer.status = "ok" =>
    LET read == Slice0(event.answer.articles, MaxArticles)
        full == CombinedText(event.articles)
    IN IF \E i \in DOMAIN read : Usable(read[i])
         THEN /\ event.success
              /\ Len(event.articles) \in 1..MaxArticles
              /\ \A i \in DOMAIN event.articles : Usable(event.articles[i])
              /\ \A i \in DOMAIN read : Usable(read[i]) => \E j \in DOMAIN event.articles : event.articles[j] = read[i]
              /\ Budget(event.text) = Budget(full)
              /\ Len(full) <= MaxLength => event.text = full
         ELSE /\ ~event.success
              /\ error # ""
              /\ event.text = <<>>

\* four articles came, the placeholder among the first three: two were passed on
C23_Witness ==
  /\ event.kind = "news"
  /\ event.success
  /\ Len(event.answer.articles) = MaxArticles + 1
  /\ Len(event.articles) = 2
  /\ \E i \in 1..MaxArticles : Includes(toLowerCase(event.answer.articles[i].title), Removed)

\* ------------------------------------------------------------------- C24
\* C24: the analysis that the settle timer of a suggestion selection starts
\* runs for the symbol that was selected, not for the text typed before.
C24_SettleAnalysesChosen ==
  event.kind = "settle" =>
    \E f \in flows : f.id = calls /\ f.stage = "news" /\ f.ticker = event.chosen

\* ------------------------------------------------------------------- C25
\* C25: after a commit (a suggestion selection or Enter) the suggestion list
\* stays closed until the user next types or focuses the input; no debounce
\* timer armed earlier and no query in flight reopens it.
C25_ClosedAfterCommit == commits.closed => ~ListOpen

\* ------------------------------------------------------------------- C28
\* C28: every chart fetch is for a ticker value the user committed; no fetch
\* is for a value that was only typed, a value typed during the settle delay
\* of a selection included.
C28_FetchesAreCommitted == \A r \in chartReqs : r.ticker \in commits.values

\* ------------------------------------------------------------------- C29
\* the ticker does not qualify for the charts: shorter than three characters
\* or with a space
TooShortOrSpaced(t) == trim(t) # <<>> /\ (Len(t) < MinChartLen \/ IncludesSpace(t))

\* an analysis was started by the step just taken, and no chart fetch
AnalysisWithoutFetch ==
  /\ \E f \in flows : f.id = calls /\ f.stage = "news"
  /\ loading
  /\ fetches = event.fetches

\* C29: committing a non-blank ticker shorter than three characters or with a
\* space (by Enter, by the Analyze button, or by a selection once its settle
\* delay is over) starts the analysis but issues no chart fetch.
C29_ShortTickerNoFetch ==
  /\ (event.kind \in {"enter", "analyze"} /\ event.via = "now" /\ TooShortOrSpaced(event.arg))
       => AnalysisWithoutFetch
  /\ (event.kind = "settle" /\ TooShortOrSpaced(event.chosen)) => AnalysisWithoutFetch

\* the same for the commits that call handleSearch at once
C29_EnterOrAnalyze ==
  (event.kind \in {"enter", "analyze"} /\ event.via = "now" /\ TooShortOrSpaced(event.arg))
    => AnalysisWithoutFetch

\* ------------------------------------------------------------------- C26
\* C26: whenever a chart displays a series, that series was fetched for the
\* ticker the chart's title shows, the current ticker prop.
C26_SeriesOfTitleTicker ==
  \A c \in Charts : View(chart[c]) = "chart" => chart[c].data[1].ticker = ticker

\* ------------------------------------------------------------------- C27
\* C27: a component's busy flag (a chart's loading, the dashboard's loading,
\* the search box's isSearching) is true whenever at least one request of
\* that component is in flight, overlapping requests included.
C27_BusyWhileInFlight ==
  /\ \A c \in Charts : (\E r \in chartReqs : r.chart = c) => chart[c].loading
  /\ flows # {} => loading
  /\ searchReqs # {} => isSearching

\* ------------------------------------------------------------------- C30
\* the sentiment request of a flow is sent by the step in which the news
\* fetch of the same flow succeeded
SentimentAfterNews ==
  \A f \in flows' :
    (f.stage = "sentiment" /\ f \notin flows) =>
      /\ event'.kind = "news"
      /\ event'.success
      /\ event'.flow = f.id
      /\ \E g \in flows : g.id = f.id /\ g.stage = "news"

\* a failed news fetch ends its flow: no sentiment request, an error message,
\* a null result, loading false
FailedNewsEndsFlow ==
  (event.kind = "news" /\ ~event.success) =>
    /\ ~\E f \in flows : f.id = event.flow
    /\ error # ""
    /\ sentimentData = NoResult
    /\ ~loading

\* the same without the null result
FailedNewsEndsFlowWithError ==
  (event.kind = "news" /\ ~event.success) =>
    /\ ~\E f \in flows : f.id = event.flow
    /\ error # ""
    /\ ~loading

\* C30: the sentiment request is sent only after the news fetch of the same
\* submission has succeeded; if the news fetch fails, no sentiment request is
\* sent and the flow ends with a non-empty error message, a null sentiment
\* result and loading false.
C30_SentimentOnlyAfterNews == [][SentimentAfterNews]_vars /\ []FailedNewsEndsFlow

\* what holds of C30 with overlapping analyses: all but the null result
C30_WithoutNullResult == [][SentimentAfterNews]_vars /\ []FailedNewsEndsFlowWithError

====
